---- MODULE Spec2Model ----
(***************************************************************************)
(* Model of cvxpy/problems/solvers/xpress_intf.py: the XPRESS solver       *)
(* interface (makeMstart, XPRESS.solve, XPRESS.format_results) together    *)
(* with the warm-start cache it keeps in cached_data[name].prev_result.    *)
(*                                                                         *)
(* Python values are encoded as follows.  A list or numpy array is a       *)
(* sequence; the indices stored IN data (row numbers, column numbers,      *)
(* BOOL_IDX, ...) are 0-based as in Python, the positions OF a sequence    *)
(* are 1-based.  A dict is a function on its set of keys.  None is <<>>    *)
(* and an object that may be None is <<v>>.  A sparse matrix is held as    *)
(* its dense rows; the compressed forms handed to the optimizer (mstart,   *)
(* indices, data) are computed from it and decoded by the optimizer.       *)
(***************************************************************************)
EXTENDS Integers, Sequences, FiniteSets, TLC

VARIABLES
    translate_back_QP_,  \* XPRESS.translate_back_QP_ (mode B when TRUE)
    prob_,               \* XPRESS.prob_: None or the handle of an instance
    prev_result,         \* cached_data[name].prev_result: None or a dict
    heap,                \* the xpress.problem objects still referenced
    ncalls,              \* number of solve calls made so far
    last,                \* what the last solve call was given and did
    ms_in,               \* makeMstart: the arguments of a call
    ms_out,              \* makeMstart: None or the returned mstart
    cone_in,             \* one cone block and a point x, given to both cone branches
    cone_out             \* None or whether x is feasible for what each branch emitted

vars ==
    <<translate_back_QP_, prob_, prev_result, heap, ncalls, last, ms_in, ms_out,
      cone_in, cone_out>>

---------------------------------------------------------------------------
(* Bounds of the model *)

MaxCalls == 2
MaxN == 2
MaxLen == 3
MaxNnz == 3

---------------------------------------------------------------------------
(* Python and numpy helpers *)

None == <<>>

Some(v) == <<v>>

PyInt(i) == <<"int", i>>

PyStr(str) == <<"str", str>>

Range(k) == 0 .. (k - 1)

RECURSIVE SumSeq(_)
SumSeq(sq) == IF Len(sq) = 0 THEN 0 ELSE sq[1] + SumSeq(Tail(sq))

MaxOf(S) == CHOOSE v \in S : \A w \in S : w <= v

MinOf(S) == CHOOSE v \in S : \A w \in S : v <= w

\* sq[lo:hi] of Python, for 0 <= lo
Slice(sq, lo, hi) == SubSeq(sq, lo + 1, MinOf({hi, Len(sq)}))

\* [v] * k of Python: empty when k <= 0
Repeat(v, k) == [i \in 1 .. (IF k > 0 THEN k ELSE 0) |-> v]

\* the elements of a set of integers as an increasing sequence (numpy.where)
RECURSIVE SortedSeq(_)
SortedSeq(S) == IF S = {} THEN <<>> ELSE <<MinOf(S)>> \o SortedSeq(S \ {MinOf(S)})

SeqSet(sq) == {sq[p] : p \in 1 .. Len(sq)}

\* numpy.bincount of an array of non-negative integers
bincount(xs) ==
    IF Len(xs) = 0 THEN <<>>
    ELSE [i \in 1 .. (MaxOf({xs[p] : p \in 1 .. Len(xs)}) + 1) |->
             Cardinality({p \in 1 .. Len(xs) : xs[p] = i - 1})]

\* numpy.cumsum
cumsum(xs) == [i \in 1 .. Len(xs) |-> SumSeq(SubSeq(xs, 1, i))]

\* The stored entries of a sparse matrix (dense rows M) in column-major order,
\* the order of a CSC matrix: <<row, column, value>> triples.
RECURSIVE CooOfCells(_, _)
CooOfCells(M, cells) ==
    IF Len(cells) = 0 THEN <<>>
    ELSE LET r == cells[1][1]
             c == cells[1][2]
             rest == CooOfCells(M, Tail(cells))
         IN  IF M[r + 1][c + 1] # 0 THEN <<<<r, c, M[r + 1][c + 1]>>>> \o rest ELSE rest

CellsByColumn(nr, nc) ==
    [p \in 1 .. (nr * nc) |-> <<(p - 1) % nr, (p - 1) \div nr>>]

CellsByRow(nr, nc) ==
    [p \in 1 .. (nr * nc) |-> <<(p - 1) \div nc, (p - 1) % nc>>]

\* a CSC matrix of nc columns: its entries, column by column
csc(M, nc) == CooOfCells(M, CellsByColumn(Len(M), nc))

\* M.tocsr(): its entries, row by row
tocsr(M, nc) == CooOfCells(M, CellsByRow(Len(M), nc))

\* A.nonzero(): the pair (row indices, column indices) of the entries
nonzero(A) == <<[p \in 1 .. Len(A) |-> A[p][1]], [p \in 1 .. Len(A) |-> A[p][2]]>>

\* A.indices of a CSC matrix (row indices) or a CSR matrix (column indices)
indices(A, isCsc) == [p \in 1 .. Len(A) |-> IF isCsc THEN A[p][1] ELSE A[p][2]]

\* A.data
coefdata(A) == [p \in 1 .. Len(A) |-> A[p][3]]

---------------------------------------------------------------------------
(* makeMstart *)

makeMstart_exclusive(A, n, ifCol) ==
    LET counts == bincount(nonzero(A)[ifCol + 1])
    IN  cumsum(counts \o Repeat(0, n - Len(counts)) \o <<0>>)

makeMstart(A, n, ifCol) ==
    LET mstart == bincount(nonzero(A)[ifCol + 1])
    IN  cumsum(<<0>> \o mstart \o Repeat(0, n - Len(mstart)))

---------------------------------------------------------------------------
(* Settings (cvxpy.settings) and the Xpress status codes *)

OPTIMAL == "optimal"

OPTIMAL_INACCURATE == "optimal_inaccurate"

INFEASIBLE == "infeasible"

UNBOUNDED == "unbounded"

SOLVER_ERROR == "solver_error"

SOLUTION_PRESENT == {OPTIMAL, OPTIMAL_INACCURATE}

STATUS == "status"

PRIMAL == "primal"

VALUE == "value"

EQ_DUAL == "eq_dual"

IIS == "iis"

lp_unstarted == 0
lp_optimal == 1
lp_infeas == 2
lp_cutoff == 3
lp_unfinished == 4
lp_unbounded == 5
lp_cutoff_in_dual == 6
lp_unsolved == 7
lp_nonconvex == 8

mip_not_loaded == 0
mip_lp_not_optimal == 1
mip_lp_optimal == 2
mip_no_sol_found == 3
mip_solution == 4
mip_infeas == 5
mip_optimal == 6
mip_unbounded == 7

xpress_infinity == 100

status_map_lp ==
    (lp_unstarted :> SOLVER_ERROR) @@ (lp_optimal :> OPTIMAL) @@
    (lp_infeas :> INFEASIBLE) @@ (lp_cutoff :> SOLVER_ERROR) @@
    (lp_unfinished :> SOLVER_ERROR) @@ (lp_unbounded :> UNBOUNDED) @@
    (lp_cutoff_in_dual :> SOLVER_ERROR) @@ (lp_unsolved :> SOLVER_ERROR) @@
    (lp_nonconvex :> SOLVER_ERROR)

status_map_mip ==
    (mip_not_loaded :> SOLVER_ERROR) @@ (mip_lp_not_optimal :> SOLVER_ERROR) @@
    (mip_lp_optimal :> SOLVER_ERROR) @@ (mip_no_sol_found :> SOLVER_ERROR) @@
    (mip_solution :> SOLVER_ERROR) @@ (mip_infeas :> INFEASIBLE) @@
    (mip_optimal :> OPTIMAL) @@ (mip_unbounded :> UNBOUNDED)

\* Solver.is_mip of the base class
is_mip(data) == Len(data.BOOL_IDX) > 0 \/ Len(data.INT_IDX) > 0

---------------------------------------------------------------------------
(* The optimizer's instance (xpress.problem) and the operations solve uses. *)
(* An instance holds its columns (objective coefficient, type, bounds), its *)
(* rows (type, coefficients over the columns, right-hand side) and its      *)
(* quadratic constraints.                                                   *)

xpress_problem ==
    [obj |-> <<>>, coltype |-> <<>>, lb |-> <<>>, ub |-> <<>>, rows |-> <<>>, qcons |-> <<>>]

\* the value stored for (r, j) in a compressed matrix: the entries of the major
\* index j are mstart[j] .. mstart[j+1]-1, ind gives their minor index
Compressed(mstart, ind, val, j, r) ==
    LET ps == {p \in 1 .. Len(ind) :
                  /\ j + 2 <= Len(mstart)
                  /\ mstart[j + 1] < p
                  /\ p <= mstart[j + 2]
                  /\ ind[p] = r}
    IN  IF ps = {} THEN 0 ELSE val[MinOf(ps)]

loadproblem(qrtypes, rhs, obj, mstart, mrwind, dmatval, dlb, dub) ==
    [obj |-> obj,
     coltype |-> [j \in 1 .. Len(obj) |-> "C"],
     lb |-> dlb,
     ub |-> dub,
     rows |-> [r \in 1 .. Len(qrtypes) |->
                  [qrtype |-> qrtypes[r],
                   coef |-> [j \in 1 .. Len(obj) |->
                                Compressed(mstart, mrwind, dmatval, j - 1, r - 1)],
                   rhs |-> rhs[r]]],
     qcons |-> <<>>]

\* the last position of idx that names column j, 0 when none does
LastPos(idx, j) ==
    LET ps == {p \in 1 .. Len(idx) : idx[p] = j} IN IF ps = {} THEN 0 ELSE MaxOf(ps)

chgcoltype(p, mindex, qctype) ==
    [p EXCEPT
       !.coltype = [j \in 1 .. Len(p.coltype) |->
                       IF LastPos(mindex, j - 1) = 0 THEN p.coltype[j]
                       ELSE qctype[LastPos(mindex, j - 1)]],
       !.lb = [j \in 1 .. Len(p.lb) |->
                  IF LastPos(mindex, j - 1) # 0 /\ qctype[LastPos(mindex, j - 1)] = "B"
                  THEN 0 ELSE p.lb[j]],
       !.ub = [j \in 1 .. Len(p.ub) |->
                  IF LastPos(mindex, j - 1) # 0 /\ qctype[LastPos(mindex, j - 1)] = "B"
                  THEN 1 ELSE p.ub[j]]]

getcoltype(p, first, lastcol) == SubSeq(p.coltype, first + 1, lastcol + 1)

\* addVariable of len(lbs) continuous columns with the given lower bounds
addVariable(p, lbs) ==
    [p EXCEPT
       !.obj = p.obj \o Repeat(0, Len(lbs)),
       !.coltype = p.coltype \o Repeat("C", Len(lbs)),
       !.lb = p.lb \o lbs,
       !.ub = p.ub \o Repeat(xpress_infinity, Len(lbs)),
       !.rows = [r \in 1 .. Len(p.rows) |->
                    [p.rows[r] EXCEPT !.coef = p.rows[r].coef \o Repeat(0, Len(lbs))]]]

addrows(p, qrtype, rhs, mstart, mclind, dmatval) ==
    [p EXCEPT
       !.rows = p.rows \o
                [r \in 1 .. Len(qrtype) |->
                    [qrtype |-> qrtype[r],
                     coef |-> [j \in 1 .. Len(p.obj) |->
                                  Compressed(mstart, mclind, dmatval, r - 1, j - 1)],
                     rhs |-> rhs[r]]]]

chgmcoef(p, mrow, mcol, dval) ==
    [p EXCEPT
       !.rows = [r \in 1 .. Len(p.rows) |->
                    [p.rows[r] EXCEPT
                       !.coef = [j \in 1 .. Len(p.obj) |->
                                    LET ps == {t \in 1 .. Len(mrow) :
                                                  mrow[t] = r - 1 /\ mcol[t] = j - 1}
                                    IN  IF ps = {} THEN p.rows[r].coef[j]
                                        ELSE dval[MaxOf(ps)]]]]]

chgobj(p, mindex, dobj) ==
    [p EXCEPT
       !.obj = [j \in 1 .. Len(p.obj) |->
                   IF LastPos(mindex, j - 1) = 0 THEN p.obj[j]
                   ELSE dobj[LastPos(mindex, j - 1)]]]

chgrhs(p, mindex, drhs) ==
    [p EXCEPT
       !.rows = [r \in 1 .. Len(p.rows) |->
                    IF LastPos(mindex, r - 1) = 0 THEN p.rows[r]
                    ELSE [p.rows[r] EXCEPT !.rhs = drhs[LastPos(mindex, r - 1)]]]]

addConstraint(p, con) == [p EXCEPT !.qcons = p.qcons \o <<con>>]

\* setObjective of the linear expression sum(c[i] * x[i]) over the first len(c) columns
setObjective(p, c) ==
    [p EXCEPT !.obj = [j \in 1 .. Len(p.obj) |-> IF j <= Len(c) THEN c[j] ELSE 0]]

\* whether the instance has integer entities
IsMipInstance(p) == \E j \in 1 .. Len(p.coltype) : p.coltype[j] # "C"

\* getProbStatus: the codes the optimizer can report after solve
ProbStatuses(p) ==
    IF IsMipInstance(p) THEN mip_not_loaded .. mip_unbounded
    ELSE lp_unstarted .. lp_nonconvex

---------------------------------------------------------------------------
(* The canonical problem data handed to solve (get_problem_data) *)

\* A problem of n variables, eq equality rows, leq inequality rows and the cones
\* soc; bi and ii are BOOL_IDX and INT_IDX; pc, pA and pb select the coefficient
\* of c, the row of A and the entry of b that differ from the base values.
ProblemData(n, eq, leq, soc, bi, ii, pc, pA, pb) ==
    [C |-> [j \in 1 .. n |-> 1 + (IF pc = j THEN 1 ELSE 0)],
     A |-> [i \in 1 .. (eq + leq + SumSeq(soc)) |->
              [j \in 1 .. n |-> ((i + j) % 2) + (IF pA = i /\ j = 1 THEN 1 ELSE 0)]],
     B |-> [i \in 1 .. (eq + leq + SumSeq(soc)) |-> i + (IF pb = i THEN 1 ELSE 0)],
     DIMS |-> [EQ_DIM |-> eq, LEQ_DIM |-> leq, SOC_DIM |-> soc],
     BOOL_IDX |-> bi,
     INT_IDX |-> ii]

\* the numbers of equality rows and of inequality rows tried
EqRows == {0, 1}

LeqRows == {0, 1}

\* the cone-size sequences tried: up to two cones of size 1 or 2
ConeSeqs == {<<>>, <<1>>, <<2>>, <<1, 1>>, <<1, 2>>, <<2, 1>>, <<2, 2>>}

\* the (BOOL_IDX, INT_IDX) pairs of a problem of n variables: the first column
\* boolean or not, the last one integer or not
TypeChoices(n) ==
    {t \in {<<>>, <<0>>} \X {<<>>, <<n - 1>>} : t[1] = <<>> \/ t[2] = <<>> \/ n > 1}

\* problems of MaxN continuous variables, of every shape
DimProblems ==
    {ProblemData(MaxN, eq, leq, soc, <<>>, <<>>, 0, 0, 0) :
        eq \in EqRows, leq \in LeqRows, soc \in ConeSeqs}

\* problems of one equality row and no cone, of every size and typing
TypeProblems ==
    UNION {{ProblemData(n, 1, 0, <<>>, t[1], t[2], 0, 0, 0) : t \in TypeChoices(n)} :
              n \in 1 .. MaxN}

\* problems of one equality and one inequality row whose first objective
\* coefficient, first matrix row and first right-hand side take two values
ParamProblems ==
    {ProblemData(MaxN, 1, 1, <<>>, <<>>, <<>>, pc, pA, pb) :
        pc \in {0, 1}, pA \in {0, 1}, pb \in {0, 1}}

\* data whose A and B hold one row more than DIMS declares
ExtraRow(data) ==
    [data EXCEPT !.A = @ \o <<[j \in 1 .. Len(data.C) |-> 1]>>, !.B = @ \o <<1>>]

\* whether DIMS accounts for every row of A and B
WellFormed(data) ==
    /\ data.DIMS.EQ_DIM + data.DIMS.LEQ_DIM + SumSeq(data.DIMS.SOC_DIM) = Len(data.B)
    /\ Len(data.A) = Len(data.B)

\* problems whose dimension descriptor leaves the last row undeclared
MalformedProblems ==
    {ExtraRow(ProblemData(MaxN, 1, 0, soc, <<>>, <<>>, 0, 0, 0)) : soc \in {<<>>, <<2>>}}

Problems == DimProblems \cup TypeProblems \cup ParamProblems \cup MalformedProblems

---------------------------------------------------------------------------
(* What a call did to the optimizer: the instance it worked on and, per     *)
(* operation, what was changed or how much was added.                       *)

NoLog ==
    [target |-> 0, loadproblem |-> 0, chgobj |-> {}, chgmcoef |-> {}, chgrhs |-> {},
     chgcoltype |-> {}, addVariable |-> 0, addrows |-> 0, addConstraint |-> 0,
     setObjective |-> 0, solve |-> 0]

---------------------------------------------------------------------------
(* XPRESS.solve: the cold load (lines 238-357) *)

\* an affine expression const + sum(coef[j] * x[j])
Affine(const, coef) == [const |-> const, coef |-> coef]

\* lhs[row] -= v * x[col] for every stored entry <<row, col, v>>
RECURSIVE SubtractTerms(_, _)
SubtractTerms(exprs, entries) ==
    IF Len(entries) = 0 THEN exprs
    ELSE LET e == entries[1]
         IN  SubtractTerms(
                 [exprs EXCEPT ![e[1] + 1].coef[e[2] + 1] = @ - e[3]],
                 Tail(entries))

\* translate_back_QP_: the cone rewritten as one quadratic constraint over x
ConeBackQP(st, A, b, k, n) ==
    LET Plhs == tocsr(Tail(A), n)
        Prhs == tocsr(<<A[1]>>, n)
        lhs == SubtractTerms([i \in 1 .. Len(b) - 1 |-> Affine(b[i + 1], Repeat(0, n))], Plhs)
        rhs == SubtractTerms(<<Affine(b[1], Repeat(0, n))>>, Prhs)[1]
    IN  [p |-> addConstraint(st.p, [name |-> <<>>, sq |-> lhs, apex |-> rhs]),
         log |-> [st.log EXCEPT !.addConstraint = @ + 1]]

ConeConstraintNeeded_always(k) == k >= 1

\* line 350: the cone constraint is needed only for k > 1
ConeConstraintNeeded(k) == k > 1

UnitCoef(ncols, col) == [j \in 1 .. ncols |-> IF j = col + 1 THEN 1 ELSE 0]

\* the cone variables y with rows y[i] + A[i] x = b[i] and the cone over y
ConeVariables(st, A, b, k, n, iCone) ==
    LET first == Len(st.p.obj)
        conevar == [i \in 1 .. k |-> first + i - 1]
        p1 == addVariable(st.p, [i \in 1 .. k |-> IF i - 1 > 0 THEN -xpress_infinity ELSE 0])
        initrow == Len(p1.rows)
        Acsr == tocsr(A, n)
        mstart == makeMstart(Acsr, k, 0)
        p2 == addrows(p1, Repeat("E", k), b, mstart, indices(Acsr, FALSE), coefdata(Acsr))
        mrow == [i \in 1 .. k |-> initrow + i - 1]
        p3 == chgmcoef(p2, mrow, conevar, Repeat(1, k))
        cone == [name |-> <<"cone", iCone>>,
                 sq |-> [i \in 1 .. k - 1 |-> Affine(0, UnitCoef(Len(p3.obj), conevar[i + 1]))],
                 apex |-> Affine(0, UnitCoef(Len(p3.obj), conevar[1]))]
        p4 == IF ConeConstraintNeeded(k) THEN addConstraint(p3, cone) ELSE p3
    IN  [p |-> p4,
         log |-> [st.log EXCEPT
                    !.addVariable = @ + k,
                    !.addrows = @ + k,
                    !.chgmcoef = @ \cup {<<mrow[i], conevar[i]>> : i \in 1 .. k},
                    !.addConstraint = @ + (IF ConeConstraintNeeded(k) THEN 1 ELSE 0)]]

NextRow_same(currow, k) == currow

\* line 284: currow += k
NextRow(currow, k) == currow + k

\* lines 275-354: the loop over dims[SOC_DIM], from row currow on
RECURSIVE ConeLoop(_, _, _, _, _, _)
ConeLoop(st, data, cones, currow, iCone, backQP) ==
    IF Len(cones) = 0 THEN st
    ELSE LET k == cones[1]
             A == Slice(data.A, currow, currow + k)
             b == Slice(data.B, currow, currow + k)
             n == Len(data.C)
             st1 == IF backQP THEN ConeBackQP(st, A, b, k, n)
                    ELSE ConeVariables(st, A, b, k, n, iCone)
         IN  ConeLoop(st1, data, Tail(cones), NextRow(currow, k), iCone + 1, backQP)

\* lines 243-357 on the fresh instance of handle h
ColdLoad(h, data, backQP) ==
    LET c == data.C
        nrowsEQ == data.DIMS.EQ_DIM
        nrowsLEQ == data.DIMS.LEQ_DIM
        nrows == nrowsEQ + nrowsLEQ
        b == Slice(data.B, 0, nrows)
        A == csc(Slice(data.A, 0, nrows), Len(c))
        mstart == makeMstart(A, Len(c), 1)
        p0 == loadproblem(Repeat("E", nrowsEQ) \o Repeat("L", nrowsLEQ), b, c, mstart,
                          indices(A, TRUE), coefdata(A),
                          Repeat(-xpress_infinity, Len(c)), Repeat(xpress_infinity, Len(c)))
        mindex == data.BOOL_IDX \o data.INT_IDX
        p1 == chgcoltype(p0, mindex,
                         Repeat("B", Len(data.BOOL_IDX)) \o Repeat("I", Len(data.INT_IDX)))
        st1 == [p |-> p1,
                log |-> [NoLog EXCEPT !.target = h, !.loadproblem = 1,
                                      !.chgcoltype = SeqSet(mindex)]]
        st2 == ConeLoop(st1, data, data.DIMS.SOC_DIM, nrows, 0, backQP)
    IN  [p |-> setObjective(st2.p, c),
         log |-> [st2.log EXCEPT !.setObjective = 1],
         raised |-> "none"]

---------------------------------------------------------------------------
(* XPRESS.solve: the warm start (lines 189-234) *)

WarmStartEligible_anyCones(warm_start, cache, n, nrows, soc) ==
    /\ warm_start
    /\ cache # None
    /\ n = Len(cache[1].obj)
    /\ nrows = Len(cache[1].rhs)

\* lines 189-193
WarmStartEligible(warm_start, cache, n, nrows, soc) ==
    /\ warm_start
    /\ cache # None
    /\ n = Len(cache[1].obj)
    /\ nrows = Len(cache[1].rhs)
    /\ soc = cache[1].cone_ind

\* numpy.where (v != v0) [0] for two vectors of one length
WhereDiffer(v, v0) == SortedSeq({i \in Range(Len(v)) : v[i + 1] # v0[i + 1]})

Take(v, idx) == [t \in 1 .. Len(idx) |-> v[idx[t] + 1]]

\* (A != A0).tocoo (): the (row, column) pairs where two matrices of one shape differ
MatDiffer(A, A0, n) ==
    LET cells == CellsByRow(Len(A), n)
        D == {t \in 1 .. Len(cells) :
                 A[cells[t][1] + 1][cells[t][2] + 1] # A0[cells[t][1] + 1][cells[t][2] + 1]}
    IN  [t \in 1 .. Cardinality(D) |-> cells[SortedSeq(D)[t]]]

\* lines 197-234 on the cached instance p0 of handle h; raised names the exception
\* that ends the call there, if any
WarmStart(h, p0, cache, data, objParam, conParam) ==
    LET c == data.C
        n == Len(c)
        nrows == data.DIMS.EQ_DIM + data.DIMS.LEQ_DIM
        b == Slice(data.B, 0, nrows)
        A == Slice(data.A, 0, nrows)
        c0 == cache.obj
        A0 == cache.mat
        b0 == cache.rhs
        vartype0 == cache.vartype
        dci == WhereDiffer(c, c0)
        p1 == IF objParam THEN chgobj(p0, dci, Take(c, dci)) ELSE p0
        dAi == MatDiffer(A, A0, n)
        dbi == WhereDiffer(b, b0)
        doA == conParam /\ Len(dAi) > 0
        dob == conParam /\ Len(dbi) > 0
        badA == doA /\ \E t \in 1 .. Len(dAi) : dAi[t][1] >= Len(p1.rows)
        badb == dob /\ \E t \in 1 .. Len(dbi) : dbi[t] >= Len(p1.rows)
        p2 == IF doA /\ ~badA
              THEN chgmcoef(p1, [t \in 1 .. Len(dAi) |-> dAi[t][1]],
                            [t \in 1 .. Len(dAi) |-> dAi[t][2]],
                            [t \in 1 .. Len(dAi) |-> A[dAi[t][1] + 1][dAi[t][2] + 1]])
              ELSE p1
        p3 == IF dob /\ ~badA /\ ~badb THEN chgrhs(p2, dbi, Take(b, dbi)) ELSE p2
        vartype == getcoltype(p3, 0, n - 1)
        vti == {j \in 1 .. Len(vartype) : vartype[j] # vartype0[j]}
    IN  [p |-> p3,
         log |-> [NoLog EXCEPT
                    !.target = h,
                    !.chgobj = IF objParam THEN SeqSet(dci) ELSE {},
                    !.chgmcoef = IF doA /\ ~badA THEN SeqSet(dAi) ELSE {},
                    !.chgrhs = IF dob /\ ~badA /\ ~badb THEN SeqSet(dbi) ELSE {}],
         raised |-> IF badA \/ badb THEN "SolverError"
                    ELSE IF vti # {} THEN "TypeError" ELSE "none"]

---------------------------------------------------------------------------
(* XPRESS.solve: status and results (lines 383-409), format_results *)

\* lines 394-397 and 455-458: None when the code is in no table (KeyError)
TranslateStatus_default(data, native) ==
    IF is_mip(data)
    THEN IF native \in DOMAIN status_map_mip THEN Some(status_map_mip[native])
         ELSE Some(SOLVER_ERROR)
    ELSE IF native \in DOMAIN status_map_lp THEN Some(status_map_lp[native])
         ELSE Some(SOLVER_ERROR)

TranslateStatus(data, native) ==
    IF is_mip(data)
    THEN IF native \in DOMAIN status_map_mip THEN Some(status_map_mip[native]) ELSE None
    ELSE IF native \in DOMAIN status_map_lp THEN Some(status_map_lp[native]) ELSE None

\* lines 386-407: the dict solve hands to format_results
ResultsDict(h, data, native, status) ==
    LET base == [problem |-> h, status |-> native, obj_value |-> "obj_value"]
        withX == IF status \in SOLUTION_PRESENT THEN ("x" :> "x") @@ base ELSE base
        withY == IF status \in SOLUTION_PRESENT /\ ~is_mip(data)
                 THEN ("y" :> "y") @@ withX ELSE withX
    IN  IF status \in SOLUTION_PRESENT THEN (IIS :> None) @@ withY
        ELSE IF status = INFEASIBLE THEN (IIS :> Some(1)) @@ withY
        ELSE withY

\* line 431
CacheIsWritten(results_dict) == PyInt(results_dict["status"]) # PyStr(SOLVER_ERROR)

CacheEntry_linearRhs(p, results_dict, data) ==
    [problem |-> results_dict["problem"],
     obj |-> data.C,
     mat |-> data.A,
     rhs |-> Slice(data.B, 0, data.DIMS.EQ_DIM + data.DIMS.LEQ_DIM),
     cone_ind |-> data.DIMS.SOC_DIM,
     vartype |-> getcoltype(p, 0, Len(data.C) - 1)]

\* lines 437-453
CacheEntry(p, results_dict, data) ==
    [problem |-> results_dict["problem"],
     obj |-> data.C,
     mat |-> data.A,
     rhs |-> data.B,
     cone_ind |-> data.DIMS.SOC_DIM,
     vartype |-> getcoltype(p, 0, Len(data.C) - 1)]

NewResults_dualAlways(results_dict, data, status) ==
    LET r0 == (STATUS :> status)
        r1 == IF status \in SOLUTION_PRESENT
              THEN (PRIMAL :> results_dict["x"]) @@ (VALUE :> results_dict["obj_value"]) @@ r0
              ELSE r0
    IN  IF status \in SOLUTION_PRESENT
        THEN (EQ_DUAL :> (IF "y" \in DOMAIN results_dict THEN results_dict["y"] ELSE "y")) @@ r1
        ELSE r1

\* lines 460-466, given that the keys read are in results_dict
NewResults(results_dict, data, status) ==
    LET r0 == (STATUS :> status)
        r1 == IF status \in SOLUTION_PRESENT
              THEN (PRIMAL :> results_dict["x"]) @@ (VALUE :> results_dict["obj_value"]) @@ r0
              ELSE r0
    IN  IF status \in SOLUTION_PRESENT /\ ~is_mip(data)
        THEN (EQ_DUAL :> results_dict["y"]) @@ r1
        ELSE r1

\* format_results: the cache after it, and the dict it returns or the exception
format_results(p, results_dict, data, cache) ==
    LET cache1 == IF CacheIsWritten(results_dict)
                  THEN Some(CacheEntry(p, results_dict, data)) ELSE cache
        st == TranslateStatus(data, results_dict["status"])
    IN  IF st = None
        THEN [cache |-> cache1, raised |-> "KeyError", returned |-> None]
        ELSE IF IIS \notin DOMAIN results_dict
        THEN [cache |-> cache1, raised |-> "KeyError", returned |-> None]
        ELSE [cache |-> cache1, raised |-> "none",
              returned |-> Some((IIS :> results_dict[IIS]) @@
                                NewResults(results_dict, data, st[1]))]

---------------------------------------------------------------------------
(* The state machine: one action per call of solve *)

NoData ==
    [C |-> <<>>, A |-> <<>>, B |-> <<>>,
     DIMS |-> [EQ_DIM |-> 0, LEQ_DIM |-> 0, SOC_DIM |-> <<>>],
     BOOL_IDX |-> <<>>, INT_IDX |-> <<>>]

NoCall ==
    [data |-> NoData, warm_start |-> FALSE, cached |-> FALSE, path |-> "none",
     objParam |-> FALSE, conParam |-> FALSE, inst |-> 0, log |-> NoLog,
     rejected |-> "none", native |-> None, status |-> "none", raised |-> "none",
     returned |-> None]

NoMstartCall == [A |-> <<>>, n |-> 0, ifCol |-> 0]

NoConeCall == [data |-> NoData, x |-> <<>>]

Init ==
    /\ translate_back_QP_ = FALSE
    /\ prob_ = None
    /\ prev_result = None
    /\ heap = <<>>
    /\ ncalls = 0
    /\ last = NoCall
    /\ ms_in = NoMstartCall
    /\ ms_out = None
    /\ cone_in = NoConeCall
    /\ cone_out = None

\* the objects still referenced once the call has ended: self.prob_ and the
\* instance of the cache entry
Referenced(h, p, cache) ==
    LET all == (h :> p) @@ heap
        keep == {h} \cup (IF cache = None THEN {} ELSE {cache[1].problem})
    IN  [x \in keep |-> all[x]]

\* The optimizer is deterministic: solving an instance whose content is that of
\* the instance solved by the previous call reports the same status.
SameAsLastSolve(p, native) ==
    (last.native # None /\ heap[last.inst] = p) => native = last.native[1]

\* the end of a call: the members, the cache and the record of the call
EndCall(rec, p, cache) ==
    /\ prob_' = Some(rec.inst)
    /\ prev_result' = cache
    /\ heap' = Referenced(rec.inst, p, cache)
    /\ ncalls' = ncalls + 1
    /\ last' = rec
    /\ UNCHANGED <<translate_back_QP_, ms_in, ms_out, cone_in, cone_out>>

\* An operation of the optimizer raising (xpress.SolverError): the exception
\* leaves solve at once, before format_results; op names the operation.
Rejected_cacheWritten(rec, p, op) ==
    EndCall([rec EXCEPT !.rejected = op, !.raised = "SolverError"], p,
            Some([problem |-> rec.inst, obj |-> rec.data.C, mat |-> rec.data.A,
                  rhs |-> rec.data.B, cone_ind |-> rec.data.DIMS.SOC_DIM,
                  vartype |-> Repeat("C", Len(rec.data.C))]))

Rejected(rec, p, op) ==
    EndCall([rec EXCEPT !.rejected = op, !.raised = "SolverError"], p, prev_result)

\* what the optimizer may do in a call: accept every operation, reject the first
\* operation of the load-or-diff step, or reject solve
Rejections == {"none", "load", "solve"}

\* whether the warm start invoked an operation that changes the instance
Changes(log) ==
    log.chgobj # {} \/ log.chgmcoef # {} \/ log.chgrhs # {} \/ log.chgcoltype # {}

\* lines 383-409 on the loaded instance ld.p, the optimizer reporting native
SolveAndReport(rec0, ld, data, native) ==
    LET st == TranslateStatus(data, native)
        rec1 == [rec0 EXCEPT !.log = [ld.log EXCEPT !.solve = 1], !.native = Some(native)]
    IN  IF st = None
        THEN EndCall([rec1 EXCEPT !.raised = "KeyError"], ld.p, prev_result)
        ELSE LET fr == format_results(ld.p, ResultsDict(rec0.inst, data, native, st[1]),
                                      data, prev_result)
             IN  EndCall([rec1 EXCEPT !.status = st[1], !.raised = fr.raised,
                                      !.returned = fr.returned],
                         ld.p, fr.cache)

\* ColdLoad of every problem in either mode, computed once
ColdLoaded == [d \in Problems, backQP \in BOOLEAN |-> ColdLoad(0, d, backQP)]

\* the call from the load-or-diff step ld on
AfterLoad(rec0, ld, data, reject) ==
    IF ld.raised # "none"
    THEN /\ reject = "none"
         /\ EndCall([rec0 EXCEPT !.log = ld.log, !.raised = ld.raised], ld.p, prev_result)
    ELSE IF reject = "solve"
    THEN Rejected([rec0 EXCEPT !.log = [ld.log EXCEPT !.solve = 1]], ld.p, "solve")
    ELSE \E native \in ProbStatuses(ld.p) :
            /\ SameAsLastSolve(ld.p, native)
            /\ SolveAndReport(rec0, ld, data, native)

\* XPRESS.solve (objective, constraints, cached_data, warm_start, ...), data being
\* get_problem_data of objective and constraints
solve(data, warm_start, reject) ==
    /\ ncalls < MaxCalls
    /\ LET n == Len(data.C)
           nrows == data.DIMS.EQ_DIM + data.DIMS.LEQ_DIM
           rec == [NoCall EXCEPT !.data = data, !.warm_start = warm_start,
                                 !.cached = (prev_result # None)]
       IN  IF WarmStartEligible(warm_start, prev_result, n, nrows, data.DIMS.SOC_DIM)
           THEN \E objParam \in BOOLEAN, conParam \in BOOLEAN :
                   LET h == prev_result[1].problem
                       rec1 == [rec EXCEPT !.path = "warm", !.inst = h,
                                           !.objParam = objParam, !.conParam = conParam]
                       ld == WarmStart(h, heap[h], prev_result[1], data, objParam, conParam)
                   IN  IF reject = "load"
                       THEN /\ Changes(ld.log)
                            /\ Rejected([rec1 EXCEPT !.log.target = h], heap[h], "load")
                       ELSE AfterLoad(rec1, ld, data, reject)
           ELSE LET h == ncalls + 1
                    rec1 == [rec EXCEPT !.path = "cold", !.inst = h]
                IN  IF reject = "load"
                    THEN Rejected([rec1 EXCEPT !.log.target = h, !.log.loadproblem = 1],
                                  xpress_problem, "load")
                    ELSE AfterLoad(rec1,
                                   [ColdLoaded[data, translate_back_QP_] EXCEPT !.log.target = h],
                                   data, reject)

Next ==
    \E data \in Problems, warm_start \in BOOLEAN, reject \in Rejections :
       solve(data, warm_start, reject)

Spec == Init /\ [][Next]_vars

\* the solver object with translate_back_QP_ as the class sets it or set by the user
InitModes ==
    /\ translate_back_QP_ \in BOOLEAN
    /\ prob_ = None
    /\ prev_result = None
    /\ heap = <<>>
    /\ ncalls = 0
    /\ last = NoCall
    /\ ms_in = NoMstartCall
    /\ ms_out = None
    /\ cone_in = NoConeCall
    /\ cone_out = None

SpecModes == InitModes /\ [][Next]_vars

---------------------------------------------------------------------------
(* makeMstart as a function of its arguments *)

\* the coordinate arrays of at most MaxNnz entries, in any order; makeMstart does
\* not compare the shape of A with n, so a coordinate may be n itself, one beyond
\* an axis of length n
CoordArrays(n) == UNION {[1 .. l -> 0 .. n] : l \in 0 .. MaxNnz}

\* a matrix whose p-th stored entry has the coordinate xs[p] along axis ifCol
MatrixOf(xs, ifCol) ==
    [p \in 1 .. Len(xs) |->
        IF ifCol = 1 THEN <<p - 1, xs[p], 1>> ELSE <<xs[p], p - 1, 1>>]

InitMstart ==
    /\ translate_back_QP_ = FALSE
    /\ prob_ = None
    /\ prev_result = None
    /\ heap = <<>>
    /\ ncalls = 0
    /\ last = NoCall
    /\ \E n \in 0 .. MaxLen, ifCol \in {0, 1} :
          \E xs \in CoordArrays(n) :
             ms_in = [A |-> MatrixOf(xs, ifCol), n |-> n, ifCol |-> ifCol]
    /\ ms_out = None
    /\ cone_in = NoConeCall
    /\ cone_out = None

CallMakeMstart ==
    /\ ms_out = None
    /\ ms_out' = Some(makeMstart(ms_in.A, ms_in.n, ms_in.ifCol))
    /\ UNCHANGED <<translate_back_QP_, prob_, prev_result, heap, ncalls, last, ms_in,
                   cone_in, cone_out>>

NextMstart == CallMakeMstart

SpecMstart == InitMstart /\ [][NextMstart]_vars

---------------------------------------------------------------------------
(* The two cone branches of the cold load on one cone block: what each emits, *)
(* as a set of points x.                                                      *)

\* the coefficients and right-hand sides tried for a cone block, and the
\* coordinates of x
ConeValues == {-1, 0, 1}

\* the numbers of variables and the cone sizes tried
ConeColumns == {1, 2}

ConeSizes == {1, 2}

\* a problem of n variables that is one cone block of rows A and right-hand side b
ConeData(n, A, b) ==
    [C |-> Repeat(1, n), A |-> A, B |-> b,
     DIMS |-> [EQ_DIM |-> 0, LEQ_DIM |-> 0, SOC_DIM |-> <<Len(b)>>],
     BOOL_IDX |-> <<>>, INT_IDX |-> <<>>]

Dot(coef, v) == SumSeq([j \in 1 .. Len(coef) |-> coef[j] * v[j]])

\* the value at v of an affine expression over the first columns
Eval(e, v) == e.const + Dot(e.coef, v)

\* whether the column values v satisfy the bounds, the rows and the quadratic
\* constraints of the instance p
Satisfies(p, v) ==
    /\ \A j \in 1 .. Len(p.obj) : p.lb[j] <= v[j] /\ v[j] <= p.ub[j]
    /\ \A r \in 1 .. Len(p.rows) :
          IF p.rows[r].qrtype = "E" THEN Dot(p.rows[r].coef, v) = p.rows[r].rhs
          ELSE Dot(p.rows[r].coef, v) <= p.rows[r].rhs
    /\ \A q \in 1 .. Len(p.qcons) :
          SumSeq([i \in 1 .. Len(p.qcons[q].sq) |->
                     Eval(p.qcons[q].sq[i], v) * Eval(p.qcons[q].sq[i], v)])
             <= Eval(p.qcons[q].apex, v) * Eval(p.qcons[q].apex, v)

\* the values a column added by the load can take at a point of ConeValues: a
\* right-hand side less a row of n coefficients applied to x
AuxValues(n) == -(n + 1) .. (n + 1)

\* whether some values of the columns added by the load complete x to a point
\* that satisfies the instance p
FeasibleX(p, x) ==
    \E y \in [1 .. (Len(p.obj) - Len(x)) -> AuxValues(Len(x))] : Satisfies(p, x \o y)

InitCone ==
    /\ translate_back_QP_ = FALSE
    /\ prob_ = None
    /\ prev_result = None
    /\ heap = <<>>
    /\ ncalls = 0
    /\ last = NoCall
    /\ ms_in = NoMstartCall
    /\ ms_out = None
    /\ \E n \in ConeColumns, k \in ConeSizes :
          \E A \in [1 .. k -> [1 .. n -> ConeValues]], b \in [1 .. k -> ConeValues],
             x \in [1 .. n -> ConeValues] :
             cone_in = [data |-> ConeData(n, A, b), x |-> x]
    /\ cone_out = None

\* the cold load of the block with cone variables and with translate_back_QP_
LoadBothWays ==
    /\ cone_out = None
    /\ cone_out' =
          Some([variables |-> FeasibleX(ColdLoad(0, cone_in.data, FALSE).p, cone_in.x),
                backQP |-> FeasibleX(ColdLoad(0, cone_in.data, TRUE).p, cone_in.x)])
    /\ UNCHANGED <<translate_back_QP_, prob_, prev_result, heap, ncalls, last, ms_in,
                   ms_out, cone_in>>

NextCone == LoadBothWays

SpecCone == InitCone /\ [][NextCone]_vars

---------------------------------------------------------------------------
(* Properties *)

\* a step of the state machine that is a call of solve
IsCall == ncalls' = ncalls + 1

LinearRows(data) == data.DIMS.EQ_DIM + data.DIMS.LEQ_DIM

\* the number of linear rows of the problem that produced a cache entry
CachedLinearRows(cache) == Len(cache.rhs) - SumSeq(cache.cone_ind)

Declared(data) == Len(data.BOOL_IDX) > 0 \/ Len(data.INT_IDX) > 0

ApplicableTable(data) == IF Declared(data) THEN status_map_mip ELSE status_map_lp

CanonicalStatuses == {OPTIMAL, INFEASIBLE, UNBOUNDED, SOLVER_ERROR}

NoChange(log) ==
    log.chgobj = {} /\ log.chgmcoef = {} /\ log.chgrhs = {} /\ log.chgcoltype = {}

\* C1: a call with warm start requested and a cache entry present builds a fresh
\* instance (the warm path is not taken) whenever the problem's variable count,
\* its number of linear rows or its cone-size sequence differs from that of the
\* problem that produced the cache entry.
C1_ColdWhenShapeDiffers ==
    [][(/\ IsCall
        /\ last'.warm_start
        /\ prev_result # None
        /\ \/ Len(last'.data.C) # Len(prev_result[1].obj)
           \/ LinearRows(last'.data) # CachedLinearRows(prev_result[1])
           \/ last'.data.DIMS.SOC_DIM # prev_result[1].cone_ind)
       => (last'.path = "cold" /\ last'.inst # prev_result[1].problem)]_vars

\* C2: a call takes the warm path (reuses the cached instance) whenever warm start
\* was requested, a cache entry exists and the variable count, the number of
\* linear rows and the cone-size sequence equal those of the cached problem,
\* cones or no cones.
C2_WarmWhenShapeMatches ==
    [][(/\ IsCall
        /\ last'.warm_start
        /\ prev_result # None
        /\ Len(last'.data.C) = Len(prev_result[1].obj)
        /\ LinearRows(last'.data) = CachedLinearRows(prev_result[1])
        /\ last'.data.DIMS.SOC_DIM = prev_result[1].cone_ind)
       => (last'.path = "warm" /\ last'.inst = prev_result[1].problem)]_vars

\* C3: after a cold solve that returned, a call with warm start requested and the
\* same problem, which the optimizer does not reject, applies no objective,
\* matrix, right-hand-side or column-type change, returns, and yields the status
\* of the first solve.
C3_RoundTrip ==
    [][(/\ IsCall
        /\ last.path = "cold"
        /\ last.returned # None
        /\ last'.warm_start
        /\ last'.data = last.data
        /\ last'.rejected = "none")
       => (/\ NoChange(last'.log)
           /\ last'.returned # None
           /\ last'.status = last.status)]_vars

\* C4: a call whose translated status is SOLVER_ERROR leaves the cache entry as it
\* was before the call.
C4_CacheKeptOnSolverError ==
    [][(IsCall /\ last'.status = SOLVER_ERROR) => prev_result' = prev_result]_vars

\* C5: after a call whose translated status is OPTIMAL, INFEASIBLE or UNBOUNDED the
\* cache entry holds the instance the call used, the call's c, A, b and cone
\* sizes, and the column types of that instance as they are after the solve.
C5_CacheRefreshed ==
    last.status \in {OPTIMAL, INFEASIBLE, UNBOUNDED} =>
        prev_result =
            Some([problem |-> last.inst,
                  obj |-> last.data.C,
                  mat |-> last.data.A,
                  rhs |-> last.data.B,
                  cone_ind |-> last.data.DIMS.SOC_DIM,
                  vartype |-> SubSeq(heap[last.inst].coltype, 1, Len(last.data.C))])

C5_Witness ==
    /\ last.status = UNBOUNDED
    /\ last.data.DIMS.SOC_DIM = <<1, 2>>
    /\ last.cached
    /\ prev_result # None
    /\ prev_result[1].problem = last.inst
    /\ Len(prev_result[1].rhs) = 3 + LinearRows(last.data)

\* C6: a call whose native status is in the applicable table returns a record
\* with the translated status, whichever of the four it is, and in that record
\* the infeasibility flag is set exactly when the status is INFEASIBLE.
C6_RecordForEveryStatus ==
    (last.native # None /\ last.native[1] \in DOMAIN ApplicableTable(last.data)) =>
        /\ last.returned # None
        /\ last.returned[1][STATUS] = ApplicableTable(last.data)[last.native[1]]
        /\ (last.returned[1][IIS] # None) <=> (last.returned[1][STATUS] = INFEASIBLE)

\* C7: in a returned record the primal vector and the objective value are present
\* exactly when the status is a solution-present one, and the equality dual
\* exactly when moreover the problem declares no boolean or integer variable.
C7_FieldsPresent ==
    last.returned # None =>
        LET r == last.returned[1]
            present == r[STATUS] \in SOLUTION_PRESENT
        IN  /\ (PRIMAL \in DOMAIN r) <=> present
            /\ (VALUE \in DOMAIN r) <=> present
            /\ (EQ_DUAL \in DOMAIN r) <=> (present /\ ~Declared(last.data))

C7_Witness ==
    /\ last.returned # None
    /\ last.returned[1][STATUS] = OPTIMAL
    /\ Declared(last.data)
    /\ DOMAIN last.returned[1] = {STATUS, PRIMAL, VALUE, IIS}

\* C8: the status is translated with the mixed-integer table exactly when the
\* problem declares a boolean or integer variable, with the continuous table
\* otherwise; a code of the applicable table gives one of the four canonical
\* statuses; a code absent from it makes the call fail, with no record returned,
\* no cache write and no status.
C8_StatusTranslation ==
    [][(IsCall /\ last'.native # None) =>
          LET table == ApplicableTable(last'.data)
              native == last'.native[1]
          IN  IF native \in DOMAIN table
              THEN last'.status = table[native] /\ last'.status \in CanonicalStatuses
              ELSE /\ last'.status = "none"
                   /\ last'.raised = "KeyError"
                   /\ last'.returned = None
                   /\ prev_result' = prev_result]_vars

C8_Witness ==
    /\ last.native = Some(lp_nonconvex)
    /\ Declared(last.data)
    /\ last.raised = "KeyError"
    /\ last.status = "none"
    /\ last.returned = None

\* the coordinates makeMstart was given, along its axis
Coordinates == nonzero(ms_in.A)[ms_in.ifCol + 1]

\* what is stated of the sequence r returned for the coordinates xs and length n
IsMstart(r, xs, n) ==
    /\ Len(r) = n + 1
    /\ r[1] = 0
    /\ \A i \in 1 .. Len(r) - 1 : r[i] <= r[i + 1]
    /\ \A i \in 0 .. n : r[i + 1] = Cardinality({p \in 1 .. Len(xs) : xs[p] < i})
    /\ r[Len(r)] = Len(xs)

ColdLoadDone == last.path = "cold" /\ last.log.setObjective = 1

\* C10: with cone variables (mode A) a cold load adds no quadratic constraint for
\* a cone of size 1 and one for each cone of size above 1, so the instance holds
\* as many quadratic constraints as there are cones of size above 1.
C10_OneConstraintPerCone ==
    (ColdLoadDone /\ ~translate_back_QP_) =>
        LET soc == last.data.DIMS.SOC_DIM
            big == {i \in 1 .. Len(soc) : soc[i] > 1}
            qcons == heap[last.inst].qcons
        IN  /\ Len(qcons) = Cardinality(big)
            /\ last.log.addConstraint = Cardinality(big)
            /\ {qcons[q].name : q \in 1 .. Len(qcons)} = {<<"cone", i - 1>> : i \in big}

C10_Witness ==
    /\ ColdLoadDone
    /\ ~translate_back_QP_
    /\ last.data.DIMS.SOC_DIM = <<1, 2>>
    /\ Len(heap[last.inst].qcons) = 1
    /\ heap[last.inst].qcons[1].name = <<"cone", 1>>

\* C11: for every cone block (size 1 included) and every point x, x satisfies
\* what translate_back_QP_ emits exactly when some values of the cone variables
\* together with x satisfy the rows, bounds and cone constraint of the other branch.
C11_SameFeasibleSet ==
    cone_out # None => (cone_out[1].backQP <=> cone_out[1].variables)

\* no operation of the optimizer was invoked
NoOperation(log) ==
    /\ log.loadproblem = 0 /\ log.addVariable = 0 /\ log.addrows = 0
    /\ log.addConstraint = 0 /\ log.setObjective = 0 /\ log.solve = 0
    /\ NoChange(log)

\* C12: a call on data whose dimension descriptor does not account for every row
\* fails with InvalidProblem before any operation of the optimizer: no load, no
\* added variable, row or constraint, no solve, no instance built or changed, and
\* the cache as it was.
C12_InvalidProblem ==
    [][(IsCall /\ ~WellFormed(last'.data)) =>
          /\ last'.raised = "InvalidProblem"
          /\ last'.returned = None
          /\ NoOperation(last'.log)
          /\ \A h \in DOMAIN heap' : h \in DOMAIN heap /\ heap'[h] = heap[h]
          /\ prev_result' = prev_result]_vars

\* C13: when an operation of the optimizer fails in a call, on the cold or the
\* warm path, the call fails, returns nothing, and leaves the cache entry as it was.
C13_RejectionKeepsCache ==
    [][(IsCall /\ (last'.rejected # "none" \/ last'.raised = "SolverError")) =>
          /\ last'.raised # "none"
          /\ last'.returned = None
          /\ prev_result' = prev_result]_vars

\* solve rejected on the warm path, after the cached instance was changed
C13_Witness ==
    /\ last.rejected = "solve"
    /\ last.path = "warm"
    /\ last.log.chgrhs # {}
    /\ prev_result # None
    /\ prev_result[1].problem = last.inst
    /\ prev_result[1].rhs # last.data.B

\* C14: a call that is not eligible for the warm start works on an instance
\* created in that call and applies no change to an instance that existed before
\* it, the cached one included: an instance is changed only in a call whose
\* eligibility check passed.
C14_NoMutationWhenIneligible ==
    [][(/\ IsCall
        /\ ~(/\ last'.warm_start
             /\ prev_result # None
             /\ Len(last'.data.C) = Len(prev_result[1].obj)
             /\ LinearRows(last'.data) = Len(prev_result[1].rhs)
             /\ last'.data.DIMS.SOC_DIM = prev_result[1].cone_ind))
       => /\ last'.path = "cold"
          /\ last'.inst \notin DOMAIN heap
          /\ last'.log.target = last'.inst
          /\ \A h \in DOMAIN heap \cap DOMAIN heap' : heap'[h] = heap[h]]_vars

\* warm start requested with a cache entry of another cone layout: the call loads
\* instance 2 and the cached instance 1 is still there
C14_Witness ==
    /\ last.warm_start
    /\ last.cached
    /\ last.path = "cold"
    /\ last.data.DIMS.SOC_DIM = <<2>>
    /\ last.inst = 2
    /\ last.log.target = 2
    /\ last.log.loadproblem = 1
    /\ prev_result # None
    /\ prev_result[1].problem = 1
    /\ prev_result[1].cone_ind = <<>>
    /\ 1 \in DOMAIN heap

\* C15: on a warm start, for each linear row i whose right-hand side differs from
\* the cached one the instance's right-hand side at i becomes b[i], and no other
\* right-hand side changes, whether or not a constraint holds a parameter.
C15_RhsDelta ==
    [][(IsCall /\ last'.path = "warm" /\ last'.log.solve = 1) =>
          LET b == last'.data.B
              b0 == prev_result[1].rhs
              rows0 == heap[last'.inst].rows
              rows1 == heap'[last'.inst].rows
          IN  /\ Len(rows1) = Len(rows0)
              /\ \A i \in 1 .. Len(rows1) :
                    IF i <= LinearRows(last'.data) /\ b[i] # b0[i]
                    THEN rows1[i].rhs = b[i]
                    ELSE rows1[i].rhs = rows0[i].rhs]_vars

\* the objective, the linear rows and their right-hand sides of the instance p
\* are the c, A and b of the cache entry
Coherent(p, cache) ==
    LET n == Len(cache.obj)
        nrows == Len(p.rows) - (IF translate_back_QP_ THEN 0 ELSE SumSeq(cache.cone_ind))
    IN  /\ SubSeq(p.obj, 1, n) = cache.obj
        /\ \A r \in 1 .. nrows :
              /\ SubSeq(p.rows[r].coef, 1, n) = cache.mat[r]
              /\ p.rows[r].rhs = cache.rhs[r]

\* C17: whenever a call has ended, whatever its path, its parameters and its
\* outcome, the objective coefficients, the linear-row coefficients and the
\* linear-row right-hand sides of the cached instance are the c, A and b stored
\* with it in the cache entry.
C17_CacheCoherence ==
    prev_result # None => Coherent(heap[prev_result[1].problem], prev_result[1])

\* the type the problem declares for column j (0-based)
DeclaredType(data, j) ==
    IF j \in SeqSet(data.BOOL_IDX) THEN "B"
    ELSE IF j \in SeqSet(data.INT_IDX) THEN "I" ELSE "C"

\* C18: after the load-or-diff step of a call the column types of the instance
\* that is solved are those the problem declares, so the instance is
\* mixed-integer exactly when the mixed-integer table is used; a warm start
\* changes the type of every column whose declared type differs from the
\* cached one.
C18_ColumnTypes ==
    [][(IsCall /\ last'.log.solve = 1) =>
          LET p == heap'[last'.inst]
              data == last'.data
          IN  /\ \A j \in 1 .. Len(data.C) : p.coltype[j] = DeclaredType(data, j - 1)
              /\ IsMipInstance(p) <=> Declared(data)
              /\ last'.path = "warm" =>
                    last'.log.chgcoltype =
                       {j \in Range(Len(data.C)) :
                           DeclaredType(data, j) # prev_result[1].vartype[j + 1]}]_vars

\* the first row (0-based) of cone block i: the linear rows and the earlier blocks
ConeStart(data, i) == LinearRows(data) + SumSeq(SubSeq(data.DIMS.SOC_DIM, 1, i - 1))

Neg(row) == [j \in 1 .. Len(row) |-> -row[j]]

\* C16: a cold load takes the cone blocks in declared order over consecutive row
\* ranges that start right after the linear rows.  With cone variables each
\* block of size k adds k columns (the first bounded below by 0, the others
\* free) and k equality rows, the t-th holding row t of the block and one unit
\* coefficient on the t-th new column, so the instance ends with n + sum(k)
\* columns and eq + leq + sum(k) rows.  With translate_back_QP_ no column and
\* no row is added and block i gives the i-th quadratic constraint.
C16_ConeLayout ==
    ColdLoadDone =>
        LET data == last.data
            soc == data.DIMS.SOC_DIM
            n == Len(data.C)
            m == LinearRows(data)
            total == SumSeq(soc)
            p == heap[last.inst]
        IN  IF translate_back_QP_
            THEN /\ Len(p.obj) = n /\ Len(p.rows) = m
                 /\ last.log.addVariable = 0 /\ last.log.addrows = 0
                 /\ Len(p.qcons) = Len(soc)
                 /\ \A i \in 1 .. Len(soc) :
                       LET s == ConeStart(data, i)
                       IN  /\ p.qcons[i].apex = Affine(data.B[s + 1], Neg(data.A[s + 1]))
                           /\ p.qcons[i].sq =
                                 [t \in 1 .. soc[i] - 1 |->
                                     Affine(data.B[s + t + 1], Neg(data.A[s + t + 1]))]
            ELSE /\ Len(p.obj) = n + total /\ Len(p.rows) = m + total
                 /\ last.log.addVariable = total /\ last.log.addrows = total
                 /\ \A i \in 1 .. Len(soc) : \A t \in 0 .. soc[i] - 1 :
                       LET r == ConeStart(data, i) + t + 1
                           col == n + (r - m)
                       IN  /\ p.rows[r].qrtype = "E"
                           /\ p.rows[r].rhs = data.B[r]
                           /\ p.rows[r].coef = data.A[r] \o UnitCoef(total, r - m - 1)
                           /\ p.coltype[col] = "C"
                           /\ p.lb[col] = IF t = 0 THEN 0 ELSE -xpress_infinity

\* cones of sizes 2 and 1 after two linear rows, loaded with cone variables
C16_Witness ==
    /\ ColdLoadDone
    /\ ~translate_back_QP_
    /\ last.data.DIMS.SOC_DIM = <<2, 1>>
    /\ LinearRows(last.data) = 2
    /\ Len(heap[last.inst].rows) = 5
    /\ heap[last.inst].rows[5].rhs = last.data.B[5]
    /\ heap[last.inst].lb[Len(last.data.C) + 3] = 0
    /\ heap[last.inst].lb[Len(last.data.C) + 2] < 0

====
